---- MODULE Spec2Model ----
(***************************************************************************)
(* Model of WorkStealingQueue<T, Capacity> (src/include/wsq.h): a bounded  *)
(* Chase-Lev deque with one owner (emplace / try_emplace / pop) and any    *)
(* number of thieves (steal).                                              *)
(*                                                                         *)
(* Memory model.  pop() stores bottom_ with memory_order_release and then  *)
(* loads top_ with memory_order_acquire, with no fence in between          *)
(* (wsq.h:111-113, "possibly need a fence here").  Release/acquire does    *)
(* not order a store before a later load of another location, and the x86  *)
(* build compiles both to plain MOVs.  The owner's stores therefore go     *)
(* through a FIFO store buffer (sb) that drains to shared memory at any    *)
(* later moment; the owner reads its own pending stores; a seq_cst         *)
(* compare_exchange is a locked read-modify-write that acts on shared      *)
(* memory with the buffer drained.  Thieves only write through             *)
(* compare_exchange, so they need no buffer.                               *)
(***************************************************************************)
EXTENDS Integers, Sequences, FiniteSets, Bags, TLC

\* template parameter Capacity (a power of two)
Capacity == 2
\* kMask = Capacity - 1
kMask == Capacity - 1

\* bounds of the model
NumThieves == 2
MaxPush == 3
MaxPop == 2
MaxSteal == 2
MaxStart == 2
MaxSize == 2

Owner == 0
Thieves == 1..NumThieves
Threads == 0..NumThieves
\* an uninitialised slot, and the nullopt / false result
NoVal == 0

\* what a constructor that throws half-way leaves in the slot
Garbage == -1

RECURSIVE BitAnd(_, _)
\* bitwise AND of two naturals
BitAnd(a, b) ==
    IF a = 0 \/ b = 0 THEN 0
    ELSE (IF a % 2 = 1 /\ b % 2 = 1 THEN 1 ELSE 0) + 2 * BitAnd(a \div 2, b \div 2)

\* a two's complement index seen through its low 16 bits
LowBits(i) == IF i >= 0 THEN i ELSE i + 65536

\* the mask taken one too small
Slot_WrongMask(i) == BitAnd(LowBits(i), kMask - 1)

\* buffer_[i & kMask]
Slot(i) == BitAnd(LowBits(i), kMask)

\* the capacity test written with > instead of >=
IsFull_OffByOne(write_idx, t) ==
    LET d == write_idx - t IN IF d < 0 THEN TRUE ELSE d > Capacity

\* `write_idx - top >= Capacity`: the long long difference is converted to
\* size_t, so a negative difference compares as a huge unsigned value
IsFull(write_idx, t) ==
    LET d == write_idx - t IN IF d < 0 THEN TRUE ELSE d >= Capacity

\* the difference returned without the test bottom >= top
size_NoClamp(b, t) == b - t

\* size(): bottom >= top ? bottom - top : 0
size(b, t) == IF b >= t THEN b - t ELSE 0

\* empty(): size() == 0
empty(b, t) == size(b, t) = 0

VARIABLES
    top,        \* top_ in shared memory
    bottom,     \* bottom_ in shared memory
    buffer,     \* buffer_ in shared memory: slot -> value
    sb,         \* the owner's pending stores, oldest first
    opc,        \* the owner's position
    okind,      \* "emplace" or "try_emplace"
    write_idx,  \* try_emplace's local
    pop_idx,    \* pop's local
    otop,       \* the owner's local copy of top_
    tpc,        \* each stealing thread's position
    steal_idx,  \* steal's local, per thread
    out,        \* steal's local, per thread
    ret,        \* the last value each thread's call returned
    last,       \* how each thread's last call ended
    pushed,     \* number of successful pushes; the k-th pushes the value k
    log,        \* successful pops and steals, in order of return
    gold,       \* the reference deque of the sequential test
    expd,       \* what the reference deque answered to the last call
    pushLeft,   \* calls each scenario still allows
    popLeft,
    stealLeft,
    sizeLeft,
    zpc,        \* each thread's position in size() / empty()
    zbottom,    \* size's local `bottom`, per thread
    zret,       \* what each thread's last size() and empty() returned
    trivial,    \* std::is_trivially_destructible_v<T>
    obj,        \* slot -> the object alive in it (T not trivially destructible)
    lifeErr     \* constructions and destructions that broke an object's lifetime

mem == <<top, bottom, buffer, sb>>
ownerLocals == <<opc, okind, write_idx, pop_idx, otop>>
thiefLocals == <<tpc, steal_idx, out>>
hist == <<pushed, log, gold, expd>>
budget == <<pushLeft, popLeft, stealLeft>>
sizeLocals == <<sizeLeft, zpc, zbottom, zret>>
life == <<trivial, obj, lifeErr>>
vars == <<mem, ownerLocals, thiefLocals, ret, last, hist, budget, sizeLocals, life>>

----------------------------------------------------------------------------
\* What the owner thread reads: its newest pending store, else shared memory.

\* the locations the owner stores to
BottomLoc == <<"bottom", 0>>
SlotLoc(s) == <<"slot", s>>

RECURSIVE LastStore(_, _, _)
LastStore(q, loc, dflt) ==
    IF q = <<>> THEN dflt
    ELSE IF q[Len(q)].loc = loc THEN q[Len(q)].val
    ELSE LastStore(SubSeq(q, 1, Len(q) - 1), loc, dflt)

\* bottom_.load() by thread p
LoadBottom(p) == IF p = Owner THEN LastStore(sb, BottomLoc, bottom) ELSE bottom

\* buffer_[s] read by thread p
LoadSlot(p, s) == IF p = Owner THEN LastStore(sb, SlotLoc(s), buffer[s]) ELSE buffer[s]

\* a store by the owner
Store(loc, v) == Append(sb, [loc |-> loc, val |-> v])

\* the buffer after the pushes of values 1..n into an empty deque
BufferAfter(n) ==
    [s \in 0..kMask |->
        LET ks == {k \in 1..n : Slot(k - 1) = s}
        IN IF ks = {} THEN NoVal ELSE CHOOSE k \in ks : \A j \in ks : j <= k]

\* the objects alive after t + live pushes and t steals
ObjAfter(t, live) ==
    [s \in 0..kMask |->
        LET ks == {k \in (t + 1)..(t + live) : Slot(k - 1) = s}
        IN IF ks = {} THEN NoVal ELSE CHOOSE k \in ks : TRUE]

\* what size() and empty() return on the indices b and t
SizeResult(b, t) == [size |-> size(b, t), empty |-> empty(b, t)]

\* the state after construction, t + live pushes and t steals, with nothing in
\* flight; pushes, pops, steals and sizes are the calls the threads may still
\* make; triv tells whether T is trivially destructible
InitAll(t, live, pushes, pops, steals, sizes, triv) ==
    /\ top = t
    /\ bottom = t + live
    /\ buffer = BufferAfter(t + live)
    /\ sb = <<>>
    /\ opc = "idle"
    /\ okind = "emplace"
    /\ write_idx = 0
    /\ pop_idx = 0
    /\ otop = 0
    /\ last = [p \in Threads |-> "none"]
    /\ tpc = [p \in Threads |-> "idle"]
    /\ steal_idx = [p \in Threads |-> 0]
    /\ out = [p \in Threads |-> NoVal]
    /\ ret = [p \in Threads |-> NoVal]
    /\ pushed = t + live
    /\ log = <<>>
    /\ gold = [k \in 1..live |-> t + k]
    /\ expd = NoVal
    /\ pushLeft = pushes
    /\ popLeft = pops
    /\ stealLeft = steals
    /\ sizeLeft = sizes
    /\ zpc = [p \in Threads |-> "idle"]
    /\ zbottom = [p \in Threads |-> 0]
    /\ zret = [p \in Threads |-> SizeResult(0, 0)]
    /\ trivial = triv
    /\ obj = IF triv THEN [s \in 0..kMask |-> NoVal] ELSE ObjAfter(t, live)
    /\ lifeErr = {}

\* T = int and no thread calls size(), as in the tests
InitWith(t, live, pushes, pops, steals) ==
    InitAll(t, live, pushes, pops, steals, [p \in Threads |-> 0], TRUE)

Init == InitWith(0, 0, MaxPush, MaxPop, [p \in Threads |-> IF p = Owner THEN 0 ELSE MaxSteal])

----------------------------------------------------------------------------
\* The store buffer drains: the oldest pending store reaches shared memory.
Flush ==
    /\ sb # <<>>
    /\ LET e == Head(sb) IN
        IF e.loc = BottomLoc
        THEN bottom' = e.val /\ UNCHANGED buffer
        ELSE buffer' = [buffer EXCEPT ![e.loc[2]] = e.val] /\ UNCHANGED bottom
    /\ sb' = Tail(sb)
    /\ UNCHANGED <<top, ownerLocals, thiefLocals, ret, last, hist, budget, sizeLocals, life>>

----------------------------------------------------------------------------
\* emplace / try_emplace (owner)

\* the owner calls emplace(pushed + 1) or try_emplace(pushed + 1)
StartEmplace ==
    /\ opc = "idle" /\ tpc[Owner] = "idle" /\ zpc[Owner] = "idle"
    /\ pushLeft > 0
    /\ \E k \in {"emplace", "try_emplace"} : okind' = k
    /\ opc' = "e_load"
    /\ pushLeft' = pushLeft - 1
    /\ UNCHANGED <<mem, write_idx, pop_idx, otop, thiefLocals, ret, last, hist,
                   popLeft, stealLeft, sizeLocals, life>>

\* loads bottom_ and top_; the deque has room
EmplaceLoad ==
    /\ opc = "e_load"
    /\ ~IsFull(LoadBottom(Owner), top)
    /\ write_idx' = LoadBottom(Owner)
    /\ otop' = top
    /\ opc' = "e_write"
    /\ UNCHANGED <<mem, okind, pop_idx, thiefLocals, ret, last, hist, budget, sizeLocals, life>>

\* loads bottom_ and top_; try_emplace returns false
EmplaceFull ==
    /\ opc = "e_load"
    /\ okind = "try_emplace"
    /\ IsFull(LoadBottom(Owner), top)
    /\ opc' = "idle"
    /\ last' = [last EXCEPT ![Owner] = "full"]
    /\ ret' = [ret EXCEPT ![Owner] = NoVal]
    /\ UNCHANGED <<mem, okind, write_idx, pop_idx, otop, thiefLocals, hist, budget, sizeLocals, life>>

\* loads bottom_ and top_; emplace calls try_emplace again
EmplaceSpin ==
    /\ opc = "e_load"
    /\ okind = "emplace"
    /\ IsFull(LoadBottom(Owner), top)
    /\ UNCHANGED vars

\* placement new of the object v in slot s
Constructed(s, v) ==
    /\ obj' = IF trivial THEN obj ELSE [obj EXCEPT ![s] = v]
    /\ lifeErr' = IF ~trivial /\ obj[s] # NoVal
                  THEN lifeErr \cup {"constructed_over_live"}
                  ELSE lifeErr
    /\ UNCHANGED trivial

\* buffer_[s].~T() by the call that took the object v out of slot s
\* (if constexpr (!std::is_trivially_destructible_v<T>))
Destroyed(s, v) ==
    /\ obj' = IF trivial THEN obj ELSE [obj EXCEPT ![s] = NoVal]
    /\ lifeErr' = IF trivial THEN lifeErr
                  ELSE IF obj[s] = NoVal THEN lifeErr \cup {"destroyed_twice"}
                  ELSE IF obj[s] # v THEN lifeErr \cup {"destroyed_other"}
                  ELSE lifeErr
    /\ UNCHANGED trivial

\* new(&buffer_[write_idx & kMask]) T(args)
EmplaceWrite ==
    /\ opc = "e_write"
    /\ Constructed(Slot(write_idx), pushed + 1)
    /\ sb' = Store(SlotLoc(Slot(write_idx)), pushed + 1)
    /\ opc' = "e_store"
    /\ UNCHANGED <<top, bottom, buffer, okind, write_idx, pop_idx, otop, thiefLocals, ret, last, hist, budget, sizeLocals>>

\* T's constructor throws: the exception leaves try_emplace (and emplace)
\* before bottom_.store; the constructor may have written part of the slot
EmplaceThrow ==
    /\ opc = "e_write"
    /\ \E partial \in BOOLEAN :
            sb' = IF partial THEN Store(SlotLoc(Slot(write_idx)), Garbage) ELSE sb
    /\ opc' = "idle"
    /\ last' = [last EXCEPT ![Owner] = "threw"]
    /\ ret' = [ret EXCEPT ![Owner] = NoVal]
    /\ write_idx' = 0
    /\ otop' = 0
    /\ UNCHANGED <<top, bottom, buffer, okind, pop_idx, thiefLocals, hist, budget, sizeLocals, life>>

\* bottom_.store(write_idx + 1); return true
EmplaceStore ==
    /\ opc = "e_store"
    /\ sb' = Store(BottomLoc, write_idx + 1)
    /\ opc' = "idle"
    /\ last' = [last EXCEPT ![Owner] = "pushed"]
    /\ ret' = [ret EXCEPT ![Owner] = pushed + 1]
    /\ pushed' = pushed + 1
    /\ gold' = Append(gold, pushed + 1)
    /\ expd' = pushed + 1
    /\ write_idx' = 0
    /\ otop' = 0
    /\ UNCHANGED <<top, bottom, buffer, okind, pop_idx, thiefLocals, log, budget, sizeLocals, life>>

----------------------------------------------------------------------------
\* pop (owner)

\* what the reference deque answers to pop_back and pop_front
GoldBack == IF gold = <<>> THEN NoVal ELSE gold[Len(gold)]
GoldFront == IF gold = <<>> THEN NoVal ELSE Head(gold)
GoldPopBack == IF gold = <<>> THEN gold ELSE SubSeq(gold, 1, Len(gold) - 1)
GoldPopFront == IF gold = <<>> THEN gold ELSE Tail(gold)

\* a successful pop or steal, as the caller sees it
\* (cas: the call took the item through a compare_exchange on top_)
Returned(p, by, i, v) ==
    [th |-> p, by |-> by, idx |-> i, val |-> v, np |-> pushed,
     cas |-> (by = "steal" \/ opc = "p_cas")]

\* pop_idx = bottom_.load() - 1; bottom_.store(pop_idx)
StartPop ==
    /\ opc = "idle" /\ tpc[Owner] = "idle" /\ zpc[Owner] = "idle"
    /\ popLeft > 0
    /\ pop_idx' = LoadBottom(Owner) - 1
    /\ sb' = Store(BottomLoc, LoadBottom(Owner) - 1)
    /\ opc' = "p_load"
    /\ popLeft' = popLeft - 1
    /\ UNCHANGED <<top, bottom, buffer, okind, write_idx, otop, thiefLocals,
                   ret, last, hist, pushLeft, stealLeft, sizeLocals, life>>

\* the empty branch without the store that reverts bottom_
PopEmpty_NoRevert ==
    /\ opc = "p_load"
    /\ pop_idx < top
    /\ pop_idx' = 0
    /\ opc' = "idle"
    /\ last' = [last EXCEPT ![Owner] = "pop_empty"]
    /\ ret' = [ret EXCEPT ![Owner] = NoVal]
    /\ expd' = GoldBack
    /\ gold' = GoldPopBack
    /\ UNCHANGED <<mem, okind, write_idx, otop, thiefLocals, pushed, log, budget, sizeLocals, life>>

\* top = top_.load(); pop_idx < top: revert bottom_, return nullopt
PopEmpty ==
    /\ opc = "p_load"
    /\ pop_idx < top
    /\ pop_idx' = 0
    /\ sb' = Store(BottomLoc, pop_idx + 1)
    /\ opc' = "idle"
    /\ last' = [last EXCEPT ![Owner] = "pop_empty"]
    /\ ret' = [ret EXCEPT ![Owner] = NoVal]
    /\ expd' = GoldBack
    /\ gold' = GoldPopBack
    /\ UNCHANGED <<top, bottom, buffer, okind, write_idx, otop, thiefLocals,
                   pushed, log, budget, sizeLocals, life>>

\* top = top_.load(); pop_idx == top: go on to the compare_exchange
PopLast ==
    /\ opc = "p_load"
    /\ pop_idx = top
    /\ otop' = top
    /\ opc' = "p_cas"
    /\ UNCHANGED <<mem, okind, write_idx, pop_idx, thiefLocals, ret, last, hist,
                   budget, sizeLocals, life>>

\* top = top_.load(); pop_idx > top: go on to take the slot
PopMany ==
    /\ opc = "p_load"
    /\ pop_idx > top
    /\ otop' = top
    /\ opc' = "p_take"
    /\ UNCHANGED <<mem, okind, write_idx, pop_idx, thiefLocals, ret, last, hist,
                   budget, sizeLocals, life>>

\* top_ advanced with a plain store instead of a compare_exchange
PopCasWin_NoCompare ==
    /\ opc = "p_cas"
    /\ sb = <<>>
    /\ top' = otop + 1
    /\ sb' = Store(BottomLoc, pop_idx + 1)
    /\ opc' = "idle"
    /\ last' = [last EXCEPT ![Owner] = "pop_won"]
    /\ ret' = [ret EXCEPT ![Owner] = buffer[Slot(pop_idx)]]
    /\ log' = Append(log, Returned(Owner, "pop", pop_idx, buffer[Slot(pop_idx)]))
    /\ expd' = GoldBack
    /\ gold' = GoldPopBack
    /\ pop_idx' = 0
    /\ otop' = 0
    /\ UNCHANGED <<bottom, buffer, okind, write_idx, thiefLocals, pushed, budget, sizeLocals, life>>

\* the winning branch without the store that restores bottom_
PopCasWin_NoRestore ==
    /\ opc = "p_cas"
    /\ sb = <<>>
    /\ top = otop
    /\ top' = otop + 1
    /\ opc' = "idle"
    /\ last' = [last EXCEPT ![Owner] = "pop_won"]
    /\ ret' = [ret EXCEPT ![Owner] = buffer[Slot(pop_idx)]]
    /\ log' = Append(log, Returned(Owner, "pop", pop_idx, buffer[Slot(pop_idx)]))
    /\ expd' = GoldBack
    /\ gold' = GoldPopBack
    /\ pop_idx' = 0
    /\ otop' = 0
    /\ UNCHANGED <<bottom, buffer, sb, okind, write_idx, thiefLocals, pushed, budget, sizeLocals, life>>

\* the compare_exchange succeeds: restore bottom_, move the slot out
PopCasWin ==
    /\ opc = "p_cas"
    /\ sb = <<>>
    /\ top = otop
    /\ Destroyed(Slot(pop_idx), buffer[Slot(pop_idx)])
    /\ top' = otop + 1
    /\ sb' = Store(BottomLoc, pop_idx + 1)
    /\ opc' = "idle"
    /\ last' = [last EXCEPT ![Owner] = "pop_won"]
    /\ ret' = [ret EXCEPT ![Owner] = buffer[Slot(pop_idx)]]
    /\ log' = Append(log, Returned(Owner, "pop", pop_idx, buffer[Slot(pop_idx)]))
    /\ expd' = GoldBack
    /\ gold' = GoldPopBack
    /\ pop_idx' = 0
    /\ otop' = 0
    /\ UNCHANGED <<bottom, buffer, okind, write_idx, thiefLocals, pushed, budget, sizeLocals>>

\* the compare_exchange fails: restore bottom_, return nullopt
PopCasLose ==
    /\ opc = "p_cas"
    /\ sb = <<>>
    /\ top # otop
    /\ pop_idx' = 0
    /\ otop' = 0
    /\ sb' = Store(BottomLoc, pop_idx + 1)
    /\ opc' = "idle"
    /\ last' = [last EXCEPT ![Owner] = "pop_lost"]
    /\ ret' = [ret EXCEPT ![Owner] = NoVal]
    /\ expd' = GoldBack
    /\ gold' = GoldPopBack
    /\ UNCHANGED <<top, bottom, buffer, okind, write_idx, thiefLocals,
                   pushed, log, budget, sizeLocals, life>>

\* out = std::move(buffer_[pop_idx & kMask]); return out
PopTake ==
    /\ opc = "p_take"
    /\ Destroyed(Slot(pop_idx), LoadSlot(Owner, Slot(pop_idx)))
    /\ opc' = "idle"
    /\ last' = [last EXCEPT ![Owner] = "pop_took"]
    /\ ret' = [ret EXCEPT ![Owner] = LoadSlot(Owner, Slot(pop_idx))]
    /\ log' = Append(log, Returned(Owner, "pop", pop_idx, LoadSlot(Owner, Slot(pop_idx))))
    /\ expd' = GoldBack
    /\ gold' = GoldPopBack
    /\ pop_idx' = 0
    /\ otop' = 0
    /\ UNCHANGED <<mem, okind, write_idx, thiefLocals, pushed, budget, sizeLocals>>

----------------------------------------------------------------------------
\* steal (any thread)

\* steal_idx = top_.load()
StartSteal(p) ==
    /\ tpc[p] = "idle" /\ zpc[p] = "idle"
    /\ p = Owner => opc = "idle"
    /\ stealLeft[p] > 0
    /\ steal_idx' = [steal_idx EXCEPT ![p] = top]
    /\ tpc' = [tpc EXCEPT ![p] = "s_load"]
    /\ stealLeft' = [stealLeft EXCEPT ![p] = @ - 1]
    /\ UNCHANGED <<mem, ownerLocals, out, ret, last, hist, pushLeft, popLeft, sizeLocals, life>>

\* a steal that claims its index with a fetch_add before it looks at bottom_
StealEmpty_FetchAdd(p) ==
    /\ tpc[p] = "s_load"
    /\ steal_idx[p] >= LoadBottom(p)
    /\ top' = top + 1
    /\ tpc' = [tpc EXCEPT ![p] = "idle"]
    /\ steal_idx' = [steal_idx EXCEPT ![p] = 0]
    /\ last' = [last EXCEPT ![p] = "steal_empty"]
    /\ ret' = [ret EXCEPT ![p] = NoVal]
    /\ expd' = GoldFront
    /\ gold' = GoldPopFront
    /\ UNCHANGED <<bottom, buffer, sb, ownerLocals, out, pushed, log, budget, sizeLocals, life>>

\* bottom = bottom_.load(); steal_idx >= bottom: return nullopt
StealEmpty(p) ==
    /\ tpc[p] = "s_load"
    /\ steal_idx[p] >= LoadBottom(p)
    /\ tpc' = [tpc EXCEPT ![p] = "idle"]
    /\ steal_idx' = [steal_idx EXCEPT ![p] = 0]
    /\ last' = [last EXCEPT ![p] = "steal_empty"]
    /\ ret' = [ret EXCEPT ![p] = NoVal]
    /\ expd' = GoldFront
    /\ gold' = GoldPopFront
    /\ UNCHANGED <<mem, ownerLocals, out, pushed, log, budget, sizeLocals, life>>

\* bottom = bottom_.load(); steal_idx < bottom
StealSee(p) ==
    /\ tpc[p] = "s_load"
    /\ steal_idx[p] < LoadBottom(p)
    /\ tpc' = [tpc EXCEPT ![p] = "s_read"]
    /\ UNCHANGED <<mem, ownerLocals, steal_idx, out, ret, last, hist, budget, sizeLocals, life>>

\* the slot next to the one steal_idx names
StealRead_OffByOne(p) ==
    /\ tpc[p] = "s_read"
    /\ out' = [out EXCEPT ![p] = LoadSlot(p, Slot(steal_idx[p] + 1))]
    /\ tpc' = [tpc EXCEPT ![p] = "s_cas"]
    /\ UNCHANGED <<mem, ownerLocals, steal_idx, ret, last, hist, budget, sizeLocals, life>>

\* out = buffer_[steal_idx & kMask]
StealRead(p) ==
    /\ tpc[p] = "s_read"
    /\ out' = [out EXCEPT ![p] = LoadSlot(p, Slot(steal_idx[p]))]
    /\ tpc' = [tpc EXCEPT ![p] = "s_cas"]
    /\ UNCHANGED <<mem, ownerLocals, steal_idx, ret, last, hist, budget, sizeLocals, life>>

\* top_ advanced with a plain store instead of a compare_exchange
StealCasWin_NoCompare(p) ==
    /\ tpc[p] = "s_cas"
    /\ p = Owner => sb = <<>>
    /\ top' = steal_idx[p] + 1
    /\ tpc' = [tpc EXCEPT ![p] = "idle"]
    /\ steal_idx' = [steal_idx EXCEPT ![p] = 0]
    /\ out' = [out EXCEPT ![p] = NoVal]
    /\ last' = [last EXCEPT ![p] = "steal_won"]
    /\ ret' = [ret EXCEPT ![p] = out[p]]
    /\ log' = Append(log, Returned(p, "steal", steal_idx[p], out[p]))
    /\ expd' = GoldFront
    /\ gold' = GoldPopFront
    /\ UNCHANGED <<bottom, buffer, sb, ownerLocals, pushed, budget, sizeLocals, life>>

\* the compare_exchange succeeds: return out
StealCasWin(p) ==
    /\ tpc[p] = "s_cas"
    /\ p = Owner => sb = <<>>
    /\ top = steal_idx[p]
    /\ top' = top + 1
    /\ IF trivial
       THEN /\ tpc' = [tpc EXCEPT ![p] = "idle"]
            /\ steal_idx' = [steal_idx EXCEPT ![p] = 0]
            /\ out' = [out EXCEPT ![p] = NoVal]
       ELSE /\ tpc' = [tpc EXCEPT ![p] = "s_dtor"]
            /\ UNCHANGED <<steal_idx, out>>
    /\ last' = [last EXCEPT ![p] = "steal_won"]
    /\ ret' = [ret EXCEPT ![p] = out[p]]
    /\ log' = Append(log, Returned(p, "steal", steal_idx[p], out[p]))
    /\ expd' = GoldFront
    /\ gold' = GoldPopFront
    /\ UNCHANGED <<bottom, buffer, sb, ownerLocals, pushed, budget, sizeLocals, life>>

\* buffer_[steal_idx & kMask].~T(), after the compare_exchange succeeded
StealDestroy(p) ==
    /\ tpc[p] = "s_dtor"
    /\ Destroyed(Slot(steal_idx[p]), out[p])
    /\ tpc' = [tpc EXCEPT ![p] = "idle"]
    /\ steal_idx' = [steal_idx EXCEPT ![p] = 0]
    /\ out' = [out EXCEPT ![p] = NoVal]
    /\ UNCHANGED <<mem, ownerLocals, ret, last, hist, budget, sizeLocals>>

\* a compare_exchange_weak, which may fail although top_ is unchanged
StealCasLose_Spurious(p) ==
    /\ tpc[p] = "s_cas"
    /\ p = Owner => sb = <<>>
    /\ steal_idx' = [steal_idx EXCEPT ![p] = 0]
    /\ out' = [out EXCEPT ![p] = NoVal]
    /\ tpc' = [tpc EXCEPT ![p] = "idle"]
    /\ last' = [last EXCEPT ![p] = "steal_lost"]
    /\ ret' = [ret EXCEPT ![p] = NoVal]
    /\ expd' = GoldFront
    /\ gold' = GoldPopFront
    /\ UNCHANGED <<mem, ownerLocals, pushed, log, budget, sizeLocals, life>>

\* the compare_exchange fails and steal starts over with the top_ it found
StealCasLose_Retry(p) ==
    /\ tpc[p] = "s_cas"
    /\ p = Owner => sb = <<>>
    /\ top # steal_idx[p]
    /\ steal_idx' = [steal_idx EXCEPT ![p] = top]
    /\ out' = [out EXCEPT ![p] = NoVal]
    /\ tpc' = [tpc EXCEPT ![p] = "s_load"]
    /\ UNCHANGED <<mem, ownerLocals, ret, last, hist, budget, sizeLocals, life>>

\* the compare_exchange fails: return nullopt
StealCasLose(p) ==
    /\ tpc[p] = "s_cas"
    /\ p = Owner => sb = <<>>
    /\ top # steal_idx[p]
    /\ steal_idx' = [steal_idx EXCEPT ![p] = 0]
    /\ out' = [out EXCEPT ![p] = NoVal]
    /\ tpc' = [tpc EXCEPT ![p] = "idle"]
    /\ last' = [last EXCEPT ![p] = "steal_lost"]
    /\ ret' = [ret EXCEPT ![p] = NoVal]
    /\ expd' = GoldFront
    /\ gold' = GoldPopFront
    /\ UNCHANGED <<mem, ownerLocals, pushed, log, budget, sizeLocals, life>>

----------------------------------------------------------------------------
\* size() and empty() (any thread)

\* bottom = bottom_.load()
StartSize(p) ==
    /\ zpc[p] = "idle" /\ tpc[p] = "idle"
    /\ p = Owner => opc = "idle"
    /\ sizeLeft[p] > 0
    /\ zbottom' = [zbottom EXCEPT ![p] = LoadBottom(p)]
    /\ zpc' = [zpc EXCEPT ![p] = "z_top"]
    /\ sizeLeft' = [sizeLeft EXCEPT ![p] = @ - 1]
    /\ UNCHANGED <<mem, ownerLocals, thiefLocals, ret, last, hist, budget, zret, life>>

\* top = top_.load(); return bottom >= top ? bottom - top : 0
SizeReturn(p) ==
    /\ zpc[p] = "z_top"
    /\ zret' = [zret EXCEPT ![p] = SizeResult(zbottom[p], top)]
    /\ zpc' = [zpc EXCEPT ![p] = "idle"]
    /\ zbottom' = [zbottom EXCEPT ![p] = 0]
    /\ UNCHANGED <<mem, ownerLocals, thiefLocals, ret, last, hist, budget, sizeLeft, life>>

Size(p) == StartSize(p) \/ SizeReturn(p)

----------------------------------------------------------------------------
\* One owner and NumThieves thieves on a deque that starts empty.

Emplace ==
    \/ StartEmplace
    \/ EmplaceLoad
    \/ EmplaceFull
    \/ EmplaceSpin
    \/ EmplaceWrite
    \/ EmplaceStore

Pop ==
    \/ StartPop
    \/ PopEmpty
    \/ PopLast
    \/ PopMany
    \/ PopCasWin
    \/ PopCasLose
    \/ PopTake

Steal(p) ==
    \/ StartSteal(p)
    \/ StealEmpty(p)
    \/ StealSee(p)
    \/ StealRead(p)
    \/ StealCasWin(p)
    \/ StealCasLose(p)

Next ==
    \/ Emplace
    \/ Pop
    \/ \E p \in Thieves : Steal(p)
    \/ Flush

Spec == Init /\ [][Next]_vars

\* no call is in flight and every store has reached memory
Quiescent ==
    /\ opc = "idle"
    /\ \A p \in Threads : tpc[p] = "idle"
    /\ sb = <<>>

----------------------------------------------------------------------------
\* What has been returned and what is resident.

\* how many successful pops and steals returned the value v
TimesReturned(v) == Cardinality({k \in 1..Len(log) : log[k].val = v})

\* how many live indices top..bottom-1 hold the value v
TimesResident(v) == Cardinality({i \in top..(bottom - 1) : buffer[Slot(i)] = v})

\* C1: once every call has returned, the values returned by successful pops
\* and steals are exactly the values pushed (1..pushed) minus the resident
\* ones, each counted once: nothing is returned twice, nothing is lost and
\* nothing is returned that was never pushed.
C1_NoLossNoDup ==
    Quiescent =>
        /\ \A v \in 1..pushed : TimesReturned(v) + TimesResident(v) = 1
        /\ \A k \in 1..Len(log) : log[k].val # NoVal

----------------------------------------------------------------------------
\* The last-item race: the deque holds one item (the value `pushed`, at index
\* top); the owner calls pop once and thief 1 calls steal once.

OneSteal(ps) == [p \in Threads |-> IF p \in ps THEN 1 ELSE 0]

InitRace == \E t \in 0..MaxStart : InitWith(t, 1, 0, 1, OneSteal({1}))

NextRace ==
    \/ StartPop
    \/ PopEmpty
    \/ PopLast
    \/ PopCasWin
    \/ PopCasLose
    \/ Steal(1)
    \/ Flush

SpecRace == InitRace /\ [][NextRace]_vars

RaceDone ==
    /\ popLeft = 0 /\ opc = "idle"
    /\ stealLeft[1] = 0 /\ tpc[1] = "idle"

\* C2: when the deque holds exactly one item and one pop runs against one
\* steal, then once both have returned exactly one of them has returned the
\* item and the other nullopt (and pop never takes the slot without the
\* compare_exchange).
C2_LastItemRace ==
    /\ opc = "p_load" => pop_idx <= top
    /\ RaceDone =>
        /\ \/ ret[Owner] = pushed /\ ret[1] = NoVal
           \/ ret[Owner] = NoVal /\ ret[1] = pushed
        /\ Len(log) = 1

\* both reached their compare_exchange; the thief won
C2_Witness == RaceDone /\ last[Owner] = "pop_lost" /\ ret[1] = pushed

----------------------------------------------------------------------------
\* One item and n thieves (1 <= n <= NumThieves) that each call steal once.

InitThieves ==
    \E t \in 0..MaxStart : \E n \in 1..NumThieves :
        InitWith(t, 1, 0, 0, OneSteal(1..n))

NextThieves == \E p \in Thieves : Steal(p)

SpecThieves == InitThieves /\ [][NextThieves]_vars

ThievesDone == \A p \in Thieves : stealLeft[p] = 0 /\ tpc[p] = "idle"

\* C3: with one item and every thief calling steal once, once all have
\* returned exactly one steal has returned the item and the others nullopt.
C3_OneWinner ==
    ThievesDone =>
        \E w \in Thieves :
            /\ ret[w] = pushed
            /\ \A p \in Thieves \ {w} : ret[p] = NoVal

\* every thief got as far as its compare_exchange before the first one succeeded
C3_Witness ==
    /\ ThievesDone
    /\ Cardinality({p \in Thieves : last[p] = "steal_lost"}) = NumThieves - 1

----------------------------------------------------------------------------
\* An empty deque (top = bottom = pushed): pops and steals only.

InitEmpty ==
    \E t \in 0..MaxStart :
        InitWith(t, 0, 0, MaxPop, [p \in Threads |-> IF p = Owner THEN 0 ELSE MaxSteal])

NextEmpty ==
    \/ StartPop
    \/ PopEmpty
    \/ \E p \in Thieves : StartSteal(p) \/ StealEmpty(p)
    \/ Flush

SpecEmpty == InitEmpty /\ [][NextEmpty]_vars

\* C8: on an empty deque every pop and steal takes its empty branch and
\* returns nullopt, and once all have returned top and bottom are what they
\* were.
C8_IdempotentEmpty ==
    /\ opc = "p_load" => pop_idx < top
    /\ \A p \in Thieves : tpc[p] = "s_load" => steal_idx[p] >= bottom
    /\ \A p \in Threads : ret[p] = NoVal
    /\ log = <<>>
    /\ top = pushed
    /\ Quiescent => bottom = pushed

\* every call allowed has returned, the owner's last pop with nullopt
C8_Witness ==
    /\ Quiescent
    /\ popLeft = 0
    /\ \A p \in Thieves : stealLeft[p] = 0
    /\ last[Owner] = "pop_empty"

----------------------------------------------------------------------------
\* One thread issues emplace, pop and steal in any order, as the sequential
\* test does beside its reference deque `gold`; it pushes only while the
\* reference holds fewer than Capacity items.

InitSeq ==
    InitWith(0, 0, MaxPush, MaxPop, [p \in Threads |-> IF p = Owner THEN MaxSteal ELSE 0])

SeqStartEmplace == Len(gold) < Capacity /\ StartEmplace

NextSeq ==
    \/ SeqStartEmplace
    \/ EmplaceLoad
    \/ EmplaceWrite
    \/ EmplaceStore
    \/ StartPop
    \/ PopEmpty
    \/ PopLast
    \/ PopMany
    \/ PopCasWin
    \/ PopTake
    \/ StartSteal(Owner)
    \/ StealEmpty(Owner)
    \/ StealSee(Owner)
    \/ StealRead(Owner)
    \/ StealCasWin(Owner)
    \/ Flush

SpecSeq == InitSeq /\ [][NextSeq]_vars

SeqIdle == opc = "idle" /\ tpc[Owner] = "idle"

\* C9: with a single thread, every pop returns what the reference's pop_back
\* returns and every steal what its pop_front returns (nullopt exactly when
\* the reference is empty), no push finds the deque full, no
\* compare_exchange fails, and after every call size() is the reference's
\* size.
C9_SequentialRefinement ==
    /\ ret[Owner] = expd
    /\ SeqIdle => size(LoadBottom(Owner), top) = Len(gold)
    /\ opc = "e_load" => ~IsFull(LoadBottom(Owner), top)
    /\ opc = "p_cas" => top = otop
    /\ tpc[Owner] = "s_cas" => top = steal_idx[Owner]

\* the thread has pushed MaxPush items, wrapped the ring, and taken at least
\* one item from each end
C9_Witness ==
    /\ SeqIdle
    /\ pushed = MaxPush
    /\ \E k \in 1..Len(log) : log[k].by = "pop"
    /\ \E k \in 1..Len(log) : log[k].by = "steal"
    /\ gold # <<>>

----------------------------------------------------------------------------
\* Properties of the owner and the thieves running together (Spec).

\* the logical indices that are live for a given bottom
Live(b) == top..(b - 1)

\* C4: bottom - top never exceeds Capacity (for bottom in memory and for the
\* newest value the owner has stored); try_emplace goes on to write only when
\* bottom - top < Capacity for the top it read, and the slot it is about to
\* construct into is the slot of no index i with top <= i < bottom, bottom
\* being the newest value stored.
C4_CapacityBound ==
    /\ bottom - top <= Capacity
    /\ LoadBottom(Owner) - top <= Capacity
    /\ opc \in {"e_write", "e_store"} => write_idx - otop < Capacity
    /\ opc = "e_write" =>
        \A i \in Live(LoadBottom(Owner)) : Slot(i) # Slot(write_idx)

\* the deque is full and the owner is writing a slot for the second time
C4_Witness ==
    /\ opc = "e_store"
    /\ write_idx >= Capacity
    /\ write_idx + 1 - top = Capacity

\* the step in which try_emplace returns false
ReturnsFull == opc = "e_load" /\ opc' = "idle"

\* no pop and no steal has been called yet
Solo == popLeft = MaxPop /\ \A p \in Thieves : stealLeft[p] = MaxSteal

\* C5: try_emplace returns false only if bottom - top = Capacity for the top it
\* read, and then changes neither top, bottom nor any slot; an owner alone on
\* an initially empty deque gets exactly Capacity successful pushes before
\* the first false.
C5_FullOnlyWhenFull ==
    [][/\ ReturnsFull =>
            /\ LoadBottom(Owner) - top = Capacity
            /\ UNCHANGED mem
       /\ (ReturnsFull /\ Solo) => pushed = Capacity
       /\ (opc = "e_load" /\ opc' = "e_write" /\ Solo) => pushed < Capacity]_vars

\* the steals among the successful calls, in the order of their compare_exchange
Steals == SelectSeq(log, LAMBDA r : r.by = "steal")

\* C6: of any two successful steals, the earlier one returned the item at the
\* lower top index, and that item was pushed earlier.
C6_StealOrder ==
    \A k \in 1..Len(Steals) : \A l \in (k + 1)..Len(Steals) :
        /\ Steals[k].idx < Steals[l].idx
        /\ Steals[k].val < Steals[l].val

\* two steals succeeded after the ring wrapped around
C6_Witness ==
    /\ Len(Steals) >= 2
    /\ Steals[Len(Steals)].idx >= Capacity

\* the values pushed and not yet returned before the k-th successful call
Unreturned(k) == (1..log[k].np) \ {log[j].val : j \in 1..(k - 1)}

\* C7: every successful pop returns the most recently pushed value not yet
\* returned by a pop or steal that returned before it; with no steal called,
\* a pop returns nullopt only when every pushed value has been returned.
C7_OwnerLifo ==
    /\ \A k \in 1..Len(log) :
        log[k].by = "pop" =>
            /\ log[k].val \in Unreturned(k)
            /\ \A v \in Unreturned(k) : v <= log[k].val
    /\ ((\A p \in Thieves : stealLeft[p] = MaxSteal) /\ opc = "idle"
            /\ last[Owner] = "pop_empty")
        => Len(log) = pushed

\* C10: when no call is in flight, bottom - top is the number of successful
\* pushes minus the number of successful pops and steals, and the deque
\* reports empty exactly when every pushed value has been returned.
C10_QuiescentAccounting ==
    Quiescent =>
        /\ bottom - top = pushed - Len(log)
        /\ (size(bottom, top) = 0) <=> (\A v \in 1..pushed : TimesReturned(v) >= 1)

----------------------------------------------------------------------------
\* size() and empty() against pushes, pops and steals: the owner pushes and
\* pops, thief 1 steals, and the last thief calls size().

InitSize ==
    InitAll(0, 0, MaxPush, MaxPop,
            [p \in Threads |-> IF p = 1 THEN MaxSteal ELSE 0],
            [p \in Threads |-> IF p = NumThieves THEN MaxSize ELSE 0],
            TRUE)

NextSize ==
    \/ Emplace
    \/ Pop
    \/ Steal(1)
    \/ Size(NumThieves)
    \/ Flush

SpecSize == InitSize /\ [][NextSize]_vars

\* C11: whatever pushes, pops and steals run beside it, size() returns a
\* value between 0 and Capacity, and empty() returns true exactly when that
\* value is 0.
C11_SizeInRange ==
    \A p \in Threads :
        /\ zret[p].size \in 0..Capacity
        /\ zret[p].empty <=> (zret[p].size = 0)

\* a thief's size() found the deque full after the ring had wrapped around,
\* and with pushes, pops and a steal in between its second size() took the
\* path that clamps a top beyond the bottom it had read
C11_Witness ==
    \E p \in Thieves :
        /\ zret[p].size = Capacity
        /\ zpc[p] = "z_top"
        /\ zbottom[p] < top

----------------------------------------------------------------------------
\* The owner emplaces MaxPush items, more than the deque holds, while every
\* thief calls steal until all of them have been stolen (remaining > 0).

InitLive ==
    InitAll(0, 0, MaxPush, 0, [p \in Threads |-> 0], [p \in Threads |-> 0], TRUE)

\* worker.emplace(1)
LiveStartEmplace == StartEmplace /\ okind' = "emplace"

\* while (remaining > 0) steal()
LoopSteal(p) ==
    /\ Len(log) < MaxPush
    /\ tpc[p] = "idle"
    /\ steal_idx' = [steal_idx EXCEPT ![p] = top]
    /\ tpc' = [tpc EXCEPT ![p] = "s_load"]
    /\ UNCHANGED <<mem, ownerLocals, out, ret, last, hist, budget, sizeLocals, life>>

LiveEmplace ==
    \/ LiveStartEmplace
    \/ EmplaceLoad
    \/ EmplaceSpin
    \/ EmplaceWrite
    \/ EmplaceStore

LiveSteal(p) ==
    \/ LoopSteal(p)
    \/ StealEmpty(p)
    \/ StealSee(p)
    \/ StealRead(p)
    \/ StealCasWin(p)
    \/ StealCasLose(p)

NextLive ==
    \/ LiveEmplace
    \/ \E p \in Thieves : LiveSteal(p)
    \/ Flush

\* every thread keeps being scheduled and every store reaches memory
FairLive ==
    /\ WF_vars(LiveEmplace)
    /\ \A p \in Thieves : WF_vars(LiveSteal(p))
    /\ WF_vars(Flush)

SpecLive == InitLive /\ [][NextLive]_vars /\ FairLive

\* emplace is retrying on a full deque
Spinning ==
    /\ opc = "e_load"
    /\ okind = "emplace"
    /\ LoadBottom(Owner) - top >= Capacity

\* C12: while emplace finds the deque full, no step changes the bottom or
\* any slot the owner has written and emplace does not return; and with the
\* thieves scheduled fairly every emplace returns with its item pushed and,
\* in the end, all MaxPush > Capacity items have been stolen.
C12_EmplaceProgress ==
    /\ [][Spinning =>
            /\ opc' = "e_load"
            /\ pushed' = pushed
            /\ LoadBottom(Owner)' = LoadBottom(Owner)
            /\ \A s \in 0..kMask : LoadSlot(Owner, s)' = LoadSlot(Owner, s)]_vars
    /\ Spinning ~> (opc = "idle" /\ last[Owner] = "pushed")
    /\ <>[](/\ pushed = MaxPush
            /\ Len(log) = MaxPush
            /\ \A k \in 1..Len(log) : log[k].by = "steal"
            /\ \A v \in 1..MaxPush : TimesReturned(v) = 1)

\* the owner has pushed Capacity items, nothing is stolen yet, and emplace
\* is retrying with the next item
C12_Witness == Spinning /\ top = 0 /\ pushed = Capacity /\ pushLeft = MaxPush - Capacity - 1

----------------------------------------------------------------------------
\* how far a call of steal and of pop has got
StealRank(pc) ==
    CASE pc = "s_load" -> 1
      [] pc = "s_read" -> 2
      [] pc = "s_cas" -> 3
      [] pc = "s_dtor" -> 4
      [] OTHER -> 0

PopRank(pc) ==
    CASE pc = "p_load" -> 1
      [] pc = "p_cas" -> 2
      [] pc = "p_take" -> 2
      [] OTHER -> 0

InPop == opc \in {"p_load", "p_cas", "p_take"}

\* C13: pop and steal never loop.  A call that has started can always take
\* its next step whatever the other threads do (the owner's compare_exchange
\* waits only for its own store buffer); every step of a call either returns
\* or takes the call further down its code, so a steal returns within four
\* and a pop within three of its own steps; and the step taken at the
\* compare_exchange returns (or, in steal, runs the destructor and returns),
\* so that no call performs a second compare_exchange.
C13_NoLoop ==
    /\ [](/\ \A p \in Threads : tpc[p] # "idle" =>
                ENABLED (StealEmpty(p) \/ StealSee(p) \/ StealRead(p)
                            \/ StealCasWin(p) \/ StealCasLose(p) \/ StealDestroy(p)
                            \/ (p = Owner /\ Flush))
          /\ InPop =>
                ENABLED (PopEmpty \/ PopLast \/ PopMany \/ PopTake
                            \/ PopCasWin \/ PopCasLose \/ Flush))
    /\ [][/\ \A p \in Threads :
                /\ tpc'[p] # tpc[p] =>
                      \/ tpc'[p] = "idle"
                      \/ StealRank(tpc'[p]) = StealRank(tpc[p]) + 1
                /\ (tpc[p] = "s_cas" /\ tpc'[p] # tpc[p]) => tpc'[p] \in {"idle", "s_dtor"}
          /\ (InPop /\ opc' # opc) =>
                \/ opc' = "idle"
                \/ PopRank(opc') = PopRank(opc) + 1
          /\ (opc = "p_cas" /\ opc' # opc) => opc' = "idle"]_vars

\* the owner's pop and a thief's steal have both lost their compare_exchange
\* to another thief and returned
C13_Witness ==
    /\ opc = "idle" /\ last[Owner] = "pop_lost"
    /\ \E p \in Thieves : tpc[p] = "idle" /\ last[p] = "steal_lost"

----------------------------------------------------------------------------
\* the successful call that took index i through a compare_exchange on top_
WinnerAt(i, loser) ==
    {k \in 1..Len(log) : log[k].cas /\ log[k].idx = i /\ log[k].th # loser}

\* C14: a steal, or a pop of the last item, returns nullopt from a failed
\* compare_exchange only if the compare_exchange of another thread on the
\* same value of top has succeeded, and that thread's call returns an item
\* (a value that some push wrote).
C14_LoserHasWinner ==
    [][/\ \A p \in Threads :
            (tpc[p] = "s_cas" /\ tpc'[p] = "idle" /\ last'[p] = "steal_lost") =>
                /\ top > steal_idx[p]
                /\ \E k \in WinnerAt(steal_idx[p], p) : log[k].val # NoVal
       /\ (opc = "p_cas" /\ opc' = "idle" /\ last'[Owner] = "pop_lost") =>
                /\ top > otop
                /\ \E k \in WinnerAt(otop, Owner) : log[k].val # NoVal]_vars

\* one item: a thief took it, and both the owner's pop and the other thief's
\* steal lost their compare_exchange to it
C14_Witness ==
    /\ Len(log) = 1 /\ log[1].by = "steal"
    /\ opc = "idle" /\ last[Owner] = "pop_lost"
    /\ \E p \in Thieves : tpc[p] = "idle" /\ last[p] = "steal_lost"

----------------------------------------------------------------------------
\* pop's effect on bottom, as the owner sees it (pop_idx + 1 is the bottom
\* the call began with).

\* C15 as stated: on every pop that returns an item, bottom has the value it
\* had when the call began.
C15_BottomNetUnchanged ==
    [][(InPop /\ opc' = "idle" /\ last'[Owner] \in {"pop_won", "pop_took"}) =>
            LoadBottom(Owner)' = pop_idx + 1]_vars

\* C15, amended: pop first stores bottom - 1; a pop that takes the last item
\* through its compare_exchange returns with bottom as it was when the call
\* began and top advanced by one, and a pop that finds more than one item
\* returns with bottom one less than when the call began and top untouched.
C15_PopBottom ==
    [][/\ (opc = "idle" /\ opc' = "p_load") =>
            /\ pop_idx' = LoadBottom(Owner) - 1
            /\ LoadBottom(Owner)' = pop_idx'
       /\ (opc = "p_cas" /\ opc' = "idle" /\ last'[Owner] = "pop_won") =>
            /\ LoadBottom(Owner)' = pop_idx + 1
            /\ top' = top + 1
       /\ (opc = "p_take" /\ opc' = "idle") =>
            /\ last'[Owner] = "pop_took"
            /\ LoadBottom(Owner)' = pop_idx
            /\ top' = top]_vars

\* the only successful call so far is a pop that found more than one item:
\* it has returned and bottom is one below the number of pushes
C15_Witness ==
    /\ opc = "idle" /\ last[Owner] = "pop_took"
    /\ Len(log) = 1
    /\ sb = <<>> /\ bottom = pushed - 1

----------------------------------------------------------------------------
\* C16: the step on which a steal's compare_exchange succeeds advances top
\* by exactly one and writes neither bottom nor a slot nor anything the
\* owner has pending; every other step of a steal, and so every step of a
\* steal that returns nullopt because the deque is empty or because it lost
\* the race, writes neither top nor bottom nor any slot.
C16_StealFrame ==
    [][\A p \in Threads :
            tpc'[p] # tpc[p] =>
                IF tpc[p] = "s_cas" /\ last'[p] = "steal_won"
                THEN top' = top + 1 /\ UNCHANGED <<bottom, buffer, sb>>
                ELSE UNCHANGED <<top, bottom, buffer, sb>>]_vars

\* of two thieves, one has stolen an item and the other has made all its
\* calls without getting one, the last of them losing the race
C16_Witness ==
    \E p, q \in Thieves :
        /\ tpc[p] = "idle" /\ tpc[q] = "idle"
        /\ last[p] = "steal_won"
        /\ last[q] = "steal_lost"
        /\ stealLeft[q] = 0
        /\ \A k \in 1..Len(log) : log[k].th # q

----------------------------------------------------------------------------
\* C17: when pop loads top, its store of the decremented bottom has reached
\* shared memory (nothing is left in the owner's store buffer), as a
\* sequentially consistent fence between the store and the load would
\* ensure.
C17_FenceInPop ==
    [][(opc = "p_load" /\ opc' # "p_load") => sb = <<>>]_vars

----------------------------------------------------------------------------
\* C18: while try_emplace is about to construct into a slot, no thief is
\* about to read that slot, a pop or steal is not taking an item out of it,
\* and it holds no index that is still live; two accesses to one slot are
\* never enabled at once.
C18_SlotExclusive ==
    opc = "e_write" =>
        /\ \A p \in Thieves :
                tpc[p] = "s_read" => Slot(steal_idx[p]) # Slot(write_idx)
        /\ \A i \in Live(write_idx) : Slot(i) # Slot(write_idx)

----------------------------------------------------------------------------
\* T is not trivially destructible: pop and steal destroy the object in the
\* slot they took.  The owner pushes and pops, thief 1 steals.

InitDtor ==
    InitAll(0, 0, MaxPush, MaxPop,
            [p \in Threads |-> IF p = 1 THEN MaxSteal ELSE 0],
            [p \in Threads |-> 0],
            FALSE)

NextDtor ==
    \/ Emplace
    \/ Pop
    \/ Steal(1)
    \/ StealDestroy(1)
    \/ Flush

SpecDtor == InitDtor /\ [][NextDtor]_vars

\* C19: no destructor runs on a slot whose object is already destroyed or is
\* not the object the call took out, no object is constructed in a slot
\* whose object has not been destroyed, and when steal reaches its
\* destructor call the slot still holds the object that steal copied.
C19_DestroyedOnce ==
    /\ lifeErr = {}
    /\ \A p \in Threads :
            tpc[p] = "s_dtor" => obj[Slot(steal_idx[p])] = out[p]

----------------------------------------------------------------------------
\* C20: with bottom the value the owner last stored, top <= bottom + 1 in
\* every state, top <= bottom whenever the owner is not inside pop, and the
\* difference bottom - top that try_emplace compares with Capacity is not
\* negative.
C20_IndexInvariant ==
    /\ top <= LoadBottom(Owner) + 1
    /\ ~InPop => top <= LoadBottom(Owner)
    /\ opc = "e_load" => LoadBottom(Owner) - top >= 0

----------------------------------------------------------------------------
\* the successful compare_exchanges on top_ so far
CasWins == {k \in 1..Len(log) : log[k].cas}

\* C21: top starts at 0 and counts the successful compare_exchanges; the
\* value a running pop or steal expects is never ahead of top; top never
\* decreases and changes only by one, on the step of a pop or steal at its
\* compare_exchange whose expected value is the current top; and a
\* compare_exchange whose expected value is a stale top fails and leaves top
\* alone.
C21_TopMonotone ==
    /\ [](/\ top = Cardinality(CasWins)
          /\ \A p \in Threads : tpc[p] \in {"s_load", "s_read", "s_cas"} => steal_idx[p] <= top
          /\ opc = "p_cas" => otop <= top)
    /\ [][/\ top' >= top
          /\ top' # top =>
                /\ top' = top + 1
                /\ \/ opc = "p_cas" /\ otop = top /\ opc' = "idle"
                                    /\ last'[Owner] = "pop_won"
                   \/ \E p \in Threads :
                        /\ tpc[p] = "s_cas" /\ steal_idx[p] = top
                        /\ tpc'[p] # tpc[p] /\ last'[p] = "steal_won"
          /\ \A p \in Threads :
                (tpc[p] = "s_cas" /\ steal_idx[p] # top /\ tpc'[p] # tpc[p]) =>
                    top' = top /\ last'[p] = "steal_lost"
          /\ (opc = "p_cas" /\ otop # top /\ opc' # opc) =>
                top' = top /\ last'[Owner] = "pop_lost"]_vars

\* top has been advanced by a pop and by a steal, and a thief is at its
\* compare_exchange with an expected value that top has left two behind
C21_Witness ==
    /\ \E k \in CasWins : log[k].by = "pop"
    /\ \E k \in CasWins : log[k].by = "steal"
    /\ \E p \in Thieves : tpc[p] = "s_cas" /\ steal_idx[p] + 2 <= top

----------------------------------------------------------------------------
\* C22: a pop that returns nullopt, from the empty branch or from a lost
\* compare_exchange, returns with bottom (as the owner stored it last) equal
\* to the value the call began with, pop_idx + 1; and when it returns from a
\* lost compare_exchange, top equals that bottom: the deque is empty.
C22_PopNulloptRestores ==
    [][/\ (InPop /\ opc' = "idle" /\ last'[Owner] \in {"pop_empty", "pop_lost"}) =>
                LoadBottom(Owner)' = pop_idx + 1
       /\ (opc = "p_cas" /\ opc' = "idle" /\ last'[Owner] = "pop_lost") =>
                top' = LoadBottom(Owner)']_vars

----------------------------------------------------------------------------
\* C23: when pop takes its empty branch (pop_idx < top), the value it stores
\* back to bottom, pop_idx + 1, is the top it has just read.
C23_EmptyRestoresTop ==
    [][(opc = "p_load" /\ opc' = "idle" /\ last'[Owner] = "pop_empty") =>
            /\ pop_idx + 1 = top
            /\ LoadBottom(Owner)' = top]_vars

----------------------------------------------------------------------------
\* T's constructor may throw: the owner pushes (any push may throw) and
\* pops, thief 1 steals.

InitThrow ==
    InitWith(0, 0, MaxPush, MaxPop, [p \in Threads |-> IF p = 1 THEN MaxSteal ELSE 0])

NextThrow ==
    \/ Emplace
    \/ EmplaceThrow
    \/ Pop
    \/ Steal(1)
    \/ Flush

SpecThrow == InitThrow /\ [][NextThrow]_vars

\* the step on which the exception leaves try_emplace
Throws == opc = "e_write" /\ opc' = "idle" /\ last'[Owner] = "threw"

\* C24: the step on which T's constructor throws leaves top, the owner's
\* bottom, the count of pushes and every live item as they were, and no
\* later pop or steal returns anything that step wrote: all values returned
\* are values of pushes that succeeded or are in progress.
C24_ThrowLeavesDeque ==
    /\ [][Throws =>
            /\ top' = top
            /\ LoadBottom(Owner)' = LoadBottom(Owner)
            /\ pushed' = pushed
            /\ \A i \in Live(LoadBottom(Owner)) :
                    LoadSlot(Owner, Slot(i))' = LoadSlot(Owner, Slot(i))]_vars
    /\ [](\A k \in 1..Len(log) : log[k].val # Garbage)
    /\ [](\A p \in Threads : ret[p] # Garbage)

----------------------------------------------------------------------------
\* C25: the slot of an index is the index modulo Capacity; any two distinct
\* live indices, whether bottom is taken from shared memory or as the owner
\* stored it last, have distinct slots; and the slot try_emplace constructs
\* into is the slot of no live index.
C25_SlotInjective ==
    /\ \A i \in 0..(pushed + 1) : Slot(i) = i % Capacity
    /\ \A b \in {bottom, LoadBottom(Owner)} :
            \A i, j \in Live(b) : i # j => Slot(i) # Slot(j)
    /\ opc = "e_write" =>
            \A i \in Live(write_idx) : Slot(i) # Slot(write_idx)

\* the owner is constructing the index MaxPush - 1, beyond the first lap of
\* the ring, while Capacity - 1 items are live below it
C25_Witness ==
    /\ opc = "e_write"
    /\ write_idx = MaxPush - 1
    /\ write_idx - top = Capacity - 1
    /\ bottom = write_idx

----------------------------------------------------------------------------
\* WorkStealingQueue.h: the deque whose capacity is a constructor argument

\* capacity_(capacity): the deque is constructed with the capacity Capacity
capacity_ == Capacity

\* mask_(capacity - 1)
mask_ == capacity_ - 1

\* buffer_[i & mask_]
RtSlot(i) == BitAnd(LowBits(i), mask_)

\* `write_idx - top >= capacity_`: the long long difference is converted to
\* size_t, so a negative difference compares as a huge unsigned value
RtIsFull(w, t) ==
    LET d == w - t IN IF d < 0 THEN TRUE ELSE d >= capacity_

\* loads bottom_ and top_; the test lets the call through
RtEmplaceLoad ==
    /\ opc = "e_load"
    /\ ~RtIsFull(LoadBottom(Owner), top)
    /\ write_idx' = LoadBottom(Owner)
    /\ otop' = top
    /\ opc' = "e_write"
    /\ UNCHANGED <<mem, okind, pop_idx, thiefLocals, ret, last, hist, budget, sizeLocals, life>>

\* loads bottom_ and top_; try_emplace returns false
RtEmplaceFull ==
    /\ opc = "e_load"
    /\ okind = "try_emplace"
    /\ RtIsFull(LoadBottom(Owner), top)
    /\ opc' = "idle"
    /\ last' = [last EXCEPT ![Owner] = "full"]
    /\ ret' = [ret EXCEPT ![Owner] = NoVal]
    /\ UNCHANGED <<mem, okind, write_idx, pop_idx, otop, thiefLocals, hist, budget, sizeLocals, life>>

\* loads bottom_ and top_; while (!try_emplace(...)) goes round again
RtEmplaceSpin ==
    /\ opc = "e_load"
    /\ okind = "emplace"
    /\ RtIsFull(LoadBottom(Owner), top)
    /\ UNCHANGED vars

\* new(&buffer_[write_idx & mask_]) T(args)
RtEmplaceWrite ==
    /\ opc = "e_write"
    /\ Constructed(RtSlot(write_idx), pushed + 1)
    /\ sb' = Store(SlotLoc(RtSlot(write_idx)), pushed + 1)
    /\ opc' = "e_store"
    /\ UNCHANGED <<top, bottom, buffer, okind, write_idx, pop_idx, otop, thiefLocals, ret, last, hist, budget, sizeLocals>>

\* emplace and try_emplace of WorkStealingQueue.h; entering the call and
\* bottom_.store(write_idx + 1) are the steps of wsq.h
RtEmplace ==
    \/ StartEmplace
    \/ RtEmplaceLoad
    \/ RtEmplaceFull
    \/ RtEmplaceSpin
    \/ RtEmplaceWrite
    \/ EmplaceStore

\* top_{0}, bottom_{0}; T = int; one thief
InitRt ==
    InitWith(0, 0, MaxPush, MaxPop, [p \in Threads |-> IF p = 1 THEN MaxSteal ELSE 0])

\* pop and steal of WorkStealingQueue.h take the steps of wsq.h for a
\* trivially destructible T
NextRt ==
    \/ RtEmplace
    \/ Pop
    \/ Steal(1)
    \/ Flush

SpecRt == InitRt /\ [][NextRt]_vars

\* the index most recently taken by a successful steal, -1 if there is none
LastStolen ==
    LET S == {k \in 1..Len(log) : log[k].by = "steal"}
    IN  IF S = {} THEN -1 ELSE log[CHOOSE k \in S : \A m \in S : m <= k].idx

\* C26: try_emplace of WorkStealingQueue.h goes on to construct only when it
\* saw fewer than capacity - 1 items (it returns false whenever bottom - top
\* >= capacity - 1), at most capacity - 1 items are ever live, and when the
\* index just below top was taken by the most recent steal, the slot the
\* owner constructs into is not that steal's slot.
C26_ReservesSlot ==
    /\ opc \in {"e_write", "e_store"} => write_idx - otop < capacity_ - 1
    /\ LoadBottom(Owner) - top <= capacity_ - 1
    /\ (opc = "e_write" /\ top > 0 /\ LastStolen = top - 1) =>
            RtSlot(write_idx) # RtSlot(LastStolen)

====
